---- MODULE Spec2Model ----
(***************************************************************************)
(* Aircrew coordination core.                                              *)
(*                                                                         *)
(* The programs of the repository are modelled, with specifications over  *)
(* the shared variable tuple:                                              *)
(*                                                                         *)
(*   SpecQueue  the MVP message queue (mcp-server): DatabaseService /      *)
(*              Database insertMessage and getMessages behind the          *)
(*              send_message and get_messages tools.  getMessages awaits   *)
(*              a select and then, separately, an update, so each call is  *)
(*              a process with one step per awaited store call.            *)
(*                                                                         *)
(*   SpecCoord  the coordination server (coordination-server/src/index.ts):*)
(*              the CallTool handler, the WebSocket registry               *)
(*              (agentConnections / agentStatus) and the two push helpers. *)
(*              Each tool call is a process whose steps are its awaited    *)
(*              store writes and the synchronous code that follows them.   *)
(*                                                                         *)
(*   SpecGateway   the same server's tools that need no connection:        *)
(*              create_project, get_project_status, register_agent, an     *)
(*              unknown tool name.                                         *)
(*   SpecRegistry  the registry under register frames with any claimed     *)
(*              agent id, closes, and the pushes of send_agent_message.    *)
(*   SpecPresence  the agents table next to the registry: register_agent,  *)
(*              register frames and closing sockets.                       *)
(*   SpecSocket    the WebSocket message handler frame by frame: register, *)
(*              heartbeat and malformed frames, with a clock for lastPing. *)
(*              SpecSocketFair adds that the clock keeps advancing.        *)
(*   SpecTasks     get_agent_tasks over a populated tasks table.           *)
(*   SpecPull      both servers' send tools next to get_messages, the one  *)
(*              operation that pulls.                                      *)
(*   SpecLifecycle update_task_status over every status of a task, with    *)
(*              the clock advancing.                                       *)
(*   SpecRebind    the registry with two sockets that may claim one id.    *)
(*   SpecTracked   the two registry maps under register frames,            *)
(*              heartbeats, closes and register_agent.                     *)
(*                                                                         *)
(* Three more programs have variables of their own:                        *)
(*                                                                         *)
(*   SpecSimple    the simple coordination server's WebSocket handlers:    *)
(*              register (awaited upsert) and close (update not awaited).  *)
(*   SpecClient    TaskforceAgent (shared/src/agent-client.ts): socket,    *)
(*              reconnect timeouts, heartbeat intervals, shutdown.         *)
(*   SpecSessions  the MCP server's /mcp routes and its transports table.  *)
(***************************************************************************)
EXTENDS Integers, Sequences, FiniteSets, TLC

(***************************************************************************)
(* Bounds of the model.                                                    *)
(***************************************************************************)
\* concurrent callers of get_messages
NumCallers == 2
\* rows the queue's messages table may hold
MaxMsgs == 2

\* Roles the queue's tools accept (z.enum(["PM", "DEV"])).
QueueRoles == {"PM", "DEV"}
\* Message type drawn as input (one of the six of the enum; the queue never reads it).
MsgTypes == {"PING"}

Callers == 1..NumCallers

\* tool calls the coordination server handles at the same time
NumHandlers == 1
\* WebSocket connections alive at the same time
NumConns == 1
\* rows the coordination server's store may hold, over its tables
MaxRows == 3

\* rows of the tasks table that get_agent_tasks is run against
MaxListed == 2
\* transports the MCP server constructs
MaxTransports == 2
\* WebSocket objects one TaskforceAgent constructs
MaxOpened == 3
\* values the clock takes after its initial one
MaxTime == 1

Handlers == 1..NumHandlers
Conns == 1..NumConns
\* one socket more than Conns, where sockets are open next to each other
Sockets == 1..(NumConns + 1)

\* An absent (undefined / null) argument or column.
Null == "null"
\* The sentinel target of send_agent_message.
Broadcast == "broadcast"
\* The roles the server's tool schemas enumerate.
KnownRoles == {"PM", "ARCHITECT", "DEV", "QA", "DEVOPS", "DOC", "COORDINATOR"}
\* Inputs drawn for create_task's assignedTo.
AssignInputs == {"DEV", Null}
\* Inputs drawn for send_agent_message's toAgent: a role, a string that is
\* no role, the sentinel.
ToAgentInputs == {"DEV", "INTERN", Broadcast}
\* Inputs drawn for a register frame's role.
WsRoleInputs == {"DEV"}
\* Inputs drawn for a register frame's agentId (0: the frame has none).
ClaimedIdInputs == {0, 1}
\* Inputs drawn under SpecRegistry: the targets of the pushes.
PushInputs == {"DEV", Broadcast}
\* Inputs drawn under SpecPresence: the name of the agent that registers by tool.
PresenceNameInputs == {"dev-1"}
\* Inputs drawn for a heartbeat frame's agentId: an id a client registers
\* under, an id nobody registers under.
HeartbeatIdInputs == {1, 2}
\* Frames the message handler has no branch for: text JSON.parse rejects,
\* an object whose type is neither register nor heartbeat.
MalformedInputs == {"unparseable", "unknown_type"}
\* The priorities of create_task's schema, the statuses and the roles of the
\* task rows get_agent_tasks is run against, and its inputs.
PriorityInputs == {"LOW", "MEDIUM", "HIGH", "URGENT"}
ListedStatuses == {"TODO", "DONE"}
ListedRoles == {"DEV", "QA"}
AgentRoleFilterInputs == {"DEV"}
StatusFilterInputs == {Null, "DONE"}
\* The seven statuses of update_task_status's schema.
TaskStatuses == {"TODO", "IN_PROGRESS", "REVIEW", "TESTING", "DONE", "CANCELLED", "BLOCKED"}
\* A DATETIME column that holds NULL.
NoTime == -1
\* Inputs drawn for update_task_status's status.
StatusInputs == {"DONE"}
\* Input drawn for send_agent_message's messageType (a free-form tag).
MessageTypeInputs == {"QUESTION"}
\* Ids drawn for projectId / taskId arguments (rows that exist or not).
RowIdInputs == {1}
\* Inputs drawn for create_project's name: a name, the empty string.
ProjectNameInputs == {"Landing Page", ""}
\* Inputs drawn for register_agent's name and role.
AgentNameInputs == {"dev-1", "dev-2"}
AgentRoleInputs == {"DEV", "QA"}
\* Ids uuidv4() can mint, never an id a client claims.
MintIds == {101}

VARIABLES
  \* ---- MVP message queue -------------------------------------------------
  messages,     \* the messages table: row id = index (creation order)
  gm,           \* per caller: the getMessages call in progress
  batch,        \* history: per role, the batch of overlapping consume calls in progress
  quiet,        \* history: per role, a consume completed and nothing was sent since it selected
  \* ---- coordination server -----------------------------------------------
  projects,         \* the projects table: row id = index
  tasks,            \* the tasks table
  agentMessages,    \* the agent_messages table
  agentConnections, \* Map agentId -> WebSocket, in insertion order
  agentStatus,      \* Map agentId -> { role, lastPing }, in insertion order
  ws,               \* per connection slot: "none" (no socket), or the socket's
                    \* readyState "open" / "closing" / "closed"
  agents,           \* the agents table: row id = index
  calls,            \* per handler: the tool call in progress
  now,              \* the clock new Date() reads
  wsLast,           \* history: the last run of a socket's message handler
                    \* (connection, frame received, frames sent in reply)
  simpleConnections, \* simple server: Map agentId -> WebSocket
  simpleAgents,     \* simple server: the agents table, status by agent id
  simpleSockets,    \* simple server: per socket, its state and its handlers'
                    \* pending store calls
  agent,            \* a TaskforceAgent: its socket, timers and flags
  transports,       \* MCP server: session id -> transport
  created,          \* MCP server: the transports constructed, in order
  httpLast          \* history: the last HTTP request to /mcp and its outcome

queueVars == <<messages, gm, batch, quiet>>
coordVars == <<projects, tasks, agentMessages, agents, agentConnections, agentStatus, ws, calls>>
socketVars == <<now, wsLast>>
simpleVars == <<simpleConnections, simpleAgents, simpleSockets>>
clientVars == <<agent>>
sessionVars == <<transports, created, httpLast>>
restVars == <<simpleVars, clientVars, sessionVars>>
vars == <<messages, gm, batch, quiet,
          projects, tasks, agentMessages, agents, agentConnections, agentStatus, ws, calls,
          now, wsLast,
          simpleConnections, simpleAgents, simpleSockets, agent,
          transports, created, httpLast>>

(***************************************************************************)
(* The simple coordination server, the agent client and the MCP session    *)
(* table as they are after construction.                                   *)
(***************************************************************************)
\* Agent ids that register frames of the simple server carry.
SimpleAgentIds == {1}

\* A socket the simple server has not seen yet: no handler of it is running.
\* reg: the register handler ("idle", "upsert": awaiting the upsert, "send":
\* resumed); upd: the agent id of the close handler's update in flight;
\* replied / failed / gone: what its handlers have done so far.
NewSocket ==
  [state |-> "none", reg |-> "idle", agentId |-> 0, upd |-> 0,
   replied |-> FALSE, failed |-> FALSE, gone |-> 0]

InitSimple ==
  /\ simpleConnections = << >>
  /\ simpleAgents = [a \in SimpleAgentIds |-> "absent"]
  /\ simpleSockets = [w \in Sockets |-> NewSocket]

\* new TaskforceAgent(config): no socket, no timer.
NewAgent ==
  [conn |-> "none", reconnects |-> 0, heartbeats |-> 0, down |-> FALSE,
   opened |-> 0, beats |-> 0]

InitClient == agent = NewAgent

NoRequest == [method |-> "none", sessionId |-> 0, status |-> 0, transport |-> 0]

InitSessions ==
  /\ transports = << >>
  /\ created = << >>
  /\ httpLast = NoRequest

InitRest == InitSimple /\ InitClient /\ InitSessions

(***************************************************************************)
(* Store operations of the queue, as the code computes them.               *)
(***************************************************************************)
\* MessageQueue.sendMessage derives the sender from the target.
FromAgentFor(to) == IF to = "PM" THEN "DEV" ELSE "PM"

\* An insert that stores the row as already read.
InsertMessageRead(rows, from, to, type) ==
  Append(rows, [fromAgent |-> from, toAgent |-> to, messageType |-> type, read |-> TRUE])

\* prisma.message.create / INSERT INTO messages: a fresh row, read = false.
InsertMessage(rows, from, to, type) ==
  Append(rows, [fromAgent |-> from, toAgent |-> to, messageType |-> type, read |-> FALSE])

\* findFirst in place of findMany: only the oldest unread row comes back.
FindUnreadFirst(rows, agentRole) ==
  LET ids == {i \in DOMAIN rows : rows[i].toAgent = agentRole /\ ~rows[i].read}
  IN IF ids = {} THEN {} ELSE {CHOOSE i \in ids : \A j \in ids : i <= j}

\* A select without the toAgent condition: every unread row comes back.
FindUnreadAnyRole(rows, agentRole) ==
  {i \in DOMAIN rows : ~rows[i].read}

\* findMany where toAgent = agentRole and read = false (ordered by createdAt,
\* which is the order of the ids): the ids of the rows selected.
FindUnread(rows, agentRole) ==
  {i \in DOMAIN rows : rows[i].toAgent = agentRole /\ ~rows[i].read}

\* An update that flips the flag instead of setting it.
UpdateManyToggle(rows, ids) ==
  [i \in DOMAIN rows |-> IF i \in ids THEN [rows[i] EXCEPT !.read = ~rows[i].read] ELSE rows[i]]

\* An update by condition instead of by id: every row is marked.
UpdateManyAllUnread(rows, ids) ==
  [i \in DOMAIN rows |-> [rows[i] EXCEPT !.read = TRUE]]

\* updateMany where id in ids, data read = true.
UpdateMany(rows, ids) ==
  [i \in DOMAIN rows |-> IF i \in ids THEN [rows[i] EXCEPT !.read = TRUE] ELSE rows[i]]

\* Off by one: a single selected message is not marked.
ShouldMarkOffByOne(markAsRead, n) == markAsRead /\ n > 1

\* A guard that forgets the flag: any non-empty selection is marked.
ShouldMarkAnyway(markAsRead, n) == n > 0

\* if (markAsRead && messages.length > 0)
ShouldMark(markAsRead, n) == markAsRead /\ n > 0

(***************************************************************************)
(* getMessages as a process: select, (update), return.                     *)
(***************************************************************************)
IdleCall ==
  [pc |-> "idle", agentRole |-> "PM", markAsRead |-> FALSE, rows |-> {},
   sentSince |-> FALSE, afterQuiet |-> FALSE]

\* consume(R) calls that have selected and not yet returned
ConsumesInProgress(R) ==
  {p \in Callers : gm[p].pc # "idle" /\ gm[p].agentRole = R /\ gm[p].markAsRead}

NoBatch == [open |-> FALSE, start |-> {}, got |-> {}, sent |-> FALSE]

InitQueue ==
  /\ messages = << >>
  /\ gm = [p \in Callers |-> IdleCall]
  /\ batch = [R \in QueueRoles |-> NoBatch]
  /\ quiet = [R \in QueueRoles |-> FALSE]

\* send_message tool -> MessageQueue.sendMessage -> insertMessage
SendMessage(to, type) ==
  /\ Len(messages) < MaxMsgs
  /\ messages' = InsertMessage(messages, FromAgentFor(to), to, type)
  /\ gm' = [p \in Callers |->
             IF gm[p].pc # "idle" /\ gm[p].agentRole = to /\ gm[p].markAsRead
             THEN [gm[p] EXCEPT !.sentSince = TRUE] ELSE gm[p]]
  /\ batch' = [batch EXCEPT ![to].sent = batch[to].open]
  /\ quiet' = [quiet EXCEPT ![to] = FALSE]

\* get_messages tool -> getMessages: the awaited select
GetMessagesSelect(p, agentRole, markAsRead) ==
  /\ gm[p].pc = "idle"
  /\ LET rows == FindUnread(messages, agentRole)
     IN /\ gm' = [gm EXCEPT ![p] =
                   [pc |-> IF ShouldMark(markAsRead, Cardinality(rows)) THEN "update" ELSE "return",
                    agentRole |-> agentRole, markAsRead |-> markAsRead,
                    rows |-> rows, sentSince |-> FALSE, afterQuiet |-> quiet[agentRole]]]
        /\ batch' = IF ~markAsRead THEN batch
                    ELSE IF ConsumesInProgress(agentRole) = {}
                    THEN [batch EXCEPT ![agentRole] =
                           [open |-> TRUE,
                            start |-> {i \in DOMAIN messages :
                                         messages[i].toAgent = agentRole /\ ~messages[i].read},
                            got |-> rows, sent |-> FALSE]]
                    ELSE [batch EXCEPT ![agentRole].got = @ \cup rows]
  /\ UNCHANGED <<messages, quiet>>

\* getMessages: the awaited update of the rows selected
GetMessagesUpdate(p) ==
  /\ gm[p].pc = "update"
  /\ messages' = UpdateMany(messages, gm[p].rows)
  /\ gm' = [gm EXCEPT ![p].pc = "return"]
  /\ UNCHANGED <<batch, quiet>>

\* getMessages returns the rows it selected; the tool sends them to the caller
GetMessagesReturn(p) ==
  /\ gm[p].pc = "return"
  /\ gm' = [gm EXCEPT ![p] = IdleCall]
  /\ batch' = IF gm[p].markAsRead /\ ConsumesInProgress(gm[p].agentRole) = {p}
              THEN [batch EXCEPT ![gm[p].agentRole] = NoBatch]
              ELSE batch
  /\ quiet' = IF gm[p].markAsRead /\ ~gm[p].sentSince
              THEN [quiet EXCEPT ![gm[p].agentRole] = TRUE]
              ELSE quiet
  /\ UNCHANGED messages

NextQueue ==
  \/ \E to \in QueueRoles, type \in MsgTypes : SendMessage(to, type)
  \/ \E p \in Callers, R \in QueueRoles, m \in BOOLEAN : GetMessagesSelect(p, R, m)
  \/ \E p \in Callers : GetMessagesUpdate(p)
  \/ \E p \in Callers : GetMessagesReturn(p)

(***************************************************************************)
(* Coordination server: the registry maps.  A JavaScript Map keeps its     *)
(* entries in insertion order; set on an existing key keeps its place.     *)
(***************************************************************************)
MapHas(m, k) == \E i \in DOMAIN m : m[i].k = k
MapGet(m, k) == m[CHOOSE i \in DOMAIN m : m[i].k = k].v
MapSet(m, k, v) ==
  IF MapHas(m, k)
  THEN [i \in DOMAIN m |-> IF m[i].k = k THEN [k |-> k, v |-> v] ELSE m[i]]
  ELSE Append(m, [k |-> k, v |-> v])
MapDelete(m, k) == SelectSeq(m, LAMBDA e : e.k # k)

\* sendMessageToAgent: for each agentStatus entry of the target role, in
\* order, the connection agentConnections holds for it, when it is OPEN.
RoleTargets(targetRole) ==
  LET hits == SelectSeq(agentStatus,
                LAMBDA e : /\ e.v.role = targetRole
                           /\ MapHas(agentConnections, e.k)
                           /\ ws[MapGet(agentConnections, e.k)] = "open")
  IN [i \in 1..Len(hits) |-> MapGet(agentConnections, hits[i].k)]

\* A broadcast that does not look at readyState.
BroadcastTargetsAnyState ==
  [i \in 1..Len(agentConnections) |-> agentConnections[i].v]

\* broadcastToAgents: every value of agentConnections that is OPEN, in order.
BroadcastTargets ==
  LET hits == SelectSeq(agentConnections, LAMBDA e : ws[e.v] = "open")
  IN [i \in 1..Len(hits) |-> hits[i].v]

\* A push that records a delivery on the message row it reached somebody with.
StoreAfterPushDelivered(rows, op, row, targets) ==
  IF op = "send_agent_message" /\ row \in DOMAIN rows /\ Len(targets) > 0
  THEN [rows EXCEPT ![row].status = "DELIVERED"] ELSE rows

\* A push that records a failure on the message row it reached nobody with.
StoreAfterPushFailed(rows, op, row, targets) ==
  IF op = "send_agent_message" /\ row \in DOMAIN rows /\ Len(targets) = 0
  THEN [rows EXCEPT ![row].status = "FAILED"] ELSE rows

\* The agent_messages table after sendMessageToAgent / broadcastToAgents:
\* neither function calls the store.
StoreAfterPush(rows, op, row, targets) == rows

(***************************************************************************)
(* Coordination server: the CallTool handler, one process per call.        *)
(*   pc "write" : the first awaited store write is in flight               *)
(*   pc "read"  : an awaited store read is in flight                       *)
(*   pc "log"   : update_task_status's second write is in flight           *)
(*   pc "push"  : the write has resolved; the code after the await runs    *)
(*   pc "done"  : the handler has its response                             *)
(***************************************************************************)
IdleSlot ==
  [pc |-> "idle", op |-> "none", name |-> Null, role |-> Null, id |-> 0, status |-> Null,
   messageType |-> Null, row |-> 0, sent |-> << >>, found |-> << >>, isError |-> FALSE]

NewCall(op, role, id, status, messageType) ==
  [pc |-> "write", op |-> op, name |-> Null, role |-> role, id |-> id, status |-> status,
   messageType |-> messageType, row |-> 0, sent |-> << >>, found |-> << >>,
   isError |-> FALSE]

\* Rows in the store, and rows that calls in flight may still insert: a call
\* is accepted while the store has room for its row (keeps the run finite).
PendingInserts == Cardinality({h \in Handlers : calls[h].pc \in {"write", "log"}})
StoreHasRoom ==
  Len(projects) + Len(tasks) + Len(agentMessages) + Len(agents) + PendingInserts < MaxRows

\* The code after an awaited write runs once the write has resolved.
NotifyReadyNoAwait(c) == c.pc \in {"write", "push"}

NotifyReady(c) == c.pc = "push"

\* No message handler has run yet.
NoFrame == [conn |-> 0, frame |-> "none", agentId |-> 0, hit |-> FALSE, out |-> << >>]

InitCoord ==
  /\ projects = << >>
  /\ tasks = << >>
  /\ agentMessages = << >>
  /\ agents = << >>
  /\ agentConnections = << >>
  /\ agentStatus = << >>
  /\ ws = [w \in Conns |-> "none"]
  /\ calls = [h \in Handlers |-> IdleSlot]
  /\ now = 0
  /\ wsLast = NoFrame

\* ---- the registry --------------------------------------------------------
\* uuidv4() returns an id nobody holds: the least id of MintIds that is in
\* neither map (ids are opaque, so which unused one it is does not matter).
UnusedMintIds ==
  {a \in MintIds : ~MapHas(agentConnections, a) /\ ~MapHas(agentStatus, a)}
Uuidv4 == CHOOSE a \in UnusedMintIds : \A b \in UnusedMintIds : a <= b

\* const agentId = message.agentId || uuidv4()
ResolveAgentId(claimed) == IF claimed # 0 THEN claimed ELSE Uuidv4

\* ws.on("message"), type "register": the two maps are set for the agent id
\* ("none": the connection is accepted by wss.on("connection"), which only
\* installs the handlers, and this is its first frame)
WsRegister(w, claimed, role) ==
  /\ ws[w] \in {"none", "open"}
  /\ ws' = [ws EXCEPT ![w] = "open"]
  /\ claimed = 0 => UnusedMintIds # {}
  /\ LET agentId == ResolveAgentId(claimed)
     IN /\ agentConnections' = MapSet(agentConnections, agentId, w)
        /\ agentStatus' = MapSet(agentStatus, agentId, [role |-> role, lastPing |-> now])
  /\ UNCHANGED <<agents, projects, tasks, agentMessages, calls>>

\* The socket leaves readyState OPEN before its close event is handled.
WsBeginClose(w) ==
  /\ ws[w] = "open"
  /\ ws' = [ws EXCEPT ![w] = "closing"]
  /\ UNCHANGED <<agents, projects, tasks, agentMessages, agentConnections, agentStatus, calls>>

\* A close handler that deletes from agentStatus only: the connection stays
\* in agentConnections.
WsCloseKeepsConnection(w) ==
  /\ ws[w] \in {"open", "closing"}
  /\ LET hits == {i \in DOMAIN agentConnections : agentConnections[i].v = w}
     IN IF hits = {}
        THEN /\ UNCHANGED <<agentConnections, agentStatus>>
             /\ ws' = [ws EXCEPT ![w] = "none"]
        ELSE LET first == CHOOSE i \in hits : \A j \in hits : i <= j
                 agentId == agentConnections[first].k
             IN /\ agentConnections' = agentConnections
                /\ agentStatus' = MapDelete(agentStatus, agentId)
                /\ ws' = [ws EXCEPT ![w] = "closed"]
  /\ UNCHANGED <<agents, projects, tasks, agentMessages, calls>>

\* ws.on("close"): the first entry whose connection is this socket is removed.
\* A closed socket that no entry refers to any more is forgotten: its slot
\* is free for a new socket (a new socket is an object nothing refers to).
WsClose(w) ==
  /\ ws[w] \in {"open", "closing"}
  /\ LET hits == {i \in DOMAIN agentConnections : agentConnections[i].v = w}
     IN IF hits = {}
        THEN /\ UNCHANGED <<agentConnections, agentStatus>>
             /\ ws' = [ws EXCEPT ![w] = "none"]
        ELSE LET first == CHOOSE i \in hits : \A j \in hits : i <= j
                 agentId == agentConnections[first].k
             IN /\ agentConnections' = MapDelete(agentConnections, agentId)
                /\ agentStatus' = MapDelete(agentStatus, agentId)
                /\ ws' = [ws EXCEPT ![w] = IF Cardinality(hits) > 1 THEN "closed" ELSE "none"]
  /\ UNCHANGED <<agents, projects, tasks, agentMessages, calls>>

\* ---- tool calls arrive -----------------------------------------------------
CallCreateProject(h, name) ==
  /\ calls[h].pc = "idle"
  /\ StoreHasRoom
  /\ calls' = [calls EXCEPT ![h] = [NewCall("create_project", Null, 0, Null, Null)
                                     EXCEPT !.name = name]]
  /\ UNCHANGED <<agents, projects, tasks, agentMessages, agentConnections, agentStatus, ws>>

CallCreateTask(h, projectId, assignedTo) ==
  /\ calls[h].pc = "idle"
  /\ StoreHasRoom
  /\ calls' = [calls EXCEPT ![h] = NewCall("create_task", assignedTo, projectId, Null, Null)]
  /\ UNCHANGED <<agents, projects, tasks, agentMessages, agentConnections, agentStatus, ws>>

CallUpdateTaskStatus(h, taskId, status) ==
  /\ calls[h].pc = "idle"
  /\ StoreHasRoom
  /\ calls' = [calls EXCEPT ![h] = NewCall("update_task_status", Null, taskId, status, Null)]
  /\ UNCHANGED <<agents, projects, tasks, agentMessages, agentConnections, agentStatus, ws>>

CallSendAgentMessage(h, toAgent, messageType) ==
  /\ calls[h].pc = "idle"
  /\ StoreHasRoom
  /\ calls' = [calls EXCEPT ![h] = NewCall("send_agent_message", toAgent, 0, Null, messageType)]
  /\ UNCHANGED <<agents, projects, tasks, agentMessages, agentConnections, agentStatus, ws>>

\* ---- the store rejects a write: the catch block builds the error envelope --
StoreFault(h) ==
  /\ calls[h].pc \in {"write", "log", "read"}
  /\ calls' = [calls EXCEPT ![h].pc = "done", ![h].isError = TRUE]
  /\ UNCHANGED <<agents, projects, tasks, agentMessages, agentConnections, agentStatus, ws>>

\* ---- create_project --------------------------------------------------------
CreateProjectCommit(h) ==
  /\ calls[h].op = "create_project" /\ calls[h].pc = "write"
  /\ projects' = Append(projects, [status |-> "PLANNING", priority |-> "MEDIUM"])
  /\ calls' = [calls EXCEPT ![h].pc = "push", ![h].row = Len(projects) + 1]
  /\ UNCHANGED <<agents, tasks, agentMessages, agentConnections, agentStatus, ws>>

CreateProjectNotify(h) ==
  /\ calls[h].op = "create_project" /\ NotifyReady(calls[h])
  /\ LET targets == BroadcastTargets
     IN /\ calls' = [calls EXCEPT ![h].pc = "done", ![h].sent = targets]
        /\ agentMessages' = StoreAfterPush(agentMessages, calls[h].op, calls[h].row, targets)
  /\ UNCHANGED <<agents, projects, tasks, agentConnections, agentStatus, ws>>

\* ---- create_task -----------------------------------------------------------
\* tasks_projectId_fkey: the insert succeeds only for an existing project
CreateTaskCommit(h) ==
  /\ calls[h].op = "create_task" /\ calls[h].pc = "write"
  /\ calls[h].id \in DOMAIN projects
  /\ tasks' = Append(tasks, [projectId |-> calls[h].id, assignedTo |-> calls[h].role,
                             status |-> "TODO", priority |-> "MEDIUM",
                             startedAt |-> NoTime, completedAt |-> NoTime])
  /\ calls' = [calls EXCEPT ![h].pc = "push", ![h].row = Len(tasks) + 1]
  /\ UNCHANGED <<agents, projects, agentMessages, agentConnections, agentStatus, ws>>

\* A store without the foreign key: the task is inserted all the same.
CreateTaskRejectInserts(h) ==
  /\ calls[h].op = "create_task" /\ calls[h].pc = "write"
  /\ calls[h].id \notin DOMAIN projects
  /\ tasks' = Append(tasks, [projectId |-> calls[h].id, assignedTo |-> calls[h].role,
                             status |-> "TODO", priority |-> "MEDIUM",
                             startedAt |-> NoTime, completedAt |-> NoTime])
  /\ calls' = [calls EXCEPT ![h].pc = "push", ![h].row = Len(tasks) + 1]
  /\ UNCHANGED <<agents, projects, agentMessages, agentConnections, agentStatus, ws>>

CreateTaskReject(h) ==
  /\ calls[h].op = "create_task" /\ calls[h].pc = "write"
  /\ calls[h].id \notin DOMAIN projects
  /\ calls' = [calls EXCEPT ![h].pc = "done", ![h].isError = TRUE]
  /\ UNCHANGED <<agents, projects, tasks, agentMessages, agentConnections, agentStatus, ws>>

\* if (args.assignedTo) await sendMessageToAgent(args.assignedTo, ...)
CreateTaskNotify(h) ==
  /\ calls[h].op = "create_task" /\ NotifyReady(calls[h])
  /\ LET targets == IF calls[h].role # Null THEN RoleTargets(calls[h].role) ELSE << >>
     IN /\ calls' = [calls EXCEPT ![h].pc = "done", ![h].sent = targets]
        /\ agentMessages' = StoreAfterPush(agentMessages, calls[h].op, calls[h].row, targets)
  /\ UNCHANGED <<agents, projects, tasks, agentConnections, agentStatus, ws>>

\* ---- update_task_status ----------------------------------------------------
\* An update that writes both timestamps on every call: a timestamp whose
\* status is not the new one is cleared.
TaskUpdateDataClears(row, status, t) ==
  [row EXCEPT !.status = status,
              !.startedAt = IF status = "IN_PROGRESS" THEN t ELSE NoTime,
              !.completedAt = IF status = "DONE" THEN t ELSE NoTime]

\* data: { status, ...(status === "IN_PROGRESS" && { startedAt: new Date() }),
\*         ...(status === "DONE" && { completedAt: new Date() }) }
TaskUpdateData(row, status, t) ==
  [row EXCEPT !.status = status,
              !.startedAt = IF status = "IN_PROGRESS" THEN t ELSE @,
              !.completedAt = IF status = "DONE" THEN t ELSE @]

\* A handler with a state machine: a task that is DONE or CANCELLED is not
\* updated, and the call fails.
UpdateTaskCommitTerminal(h) ==
  /\ calls[h].op = "update_task_status" /\ calls[h].pc = "write"
  /\ calls[h].id \in DOMAIN tasks
  /\ IF tasks[calls[h].id].status \in {"DONE", "CANCELLED"}
     THEN /\ calls' = [calls EXCEPT ![h].pc = "done", ![h].isError = TRUE]
          /\ tasks' = tasks
     ELSE /\ tasks' = [tasks EXCEPT ![calls[h].id] = TaskUpdateData(@, calls[h].status, now)]
          /\ calls' = [calls EXCEPT ![h].pc = "log", ![h].row = calls[h].id,
                                    ![h].role = tasks[calls[h].id].assignedTo]
  /\ UNCHANGED <<agents, projects, agentMessages, agentConnections, agentStatus, ws>>

UpdateTaskCommit(h) ==
  /\ calls[h].op = "update_task_status" /\ calls[h].pc = "write"
  /\ calls[h].id \in DOMAIN tasks
  /\ tasks' = [tasks EXCEPT ![calls[h].id] = TaskUpdateData(@, calls[h].status, now)]
  /\ calls' = [calls EXCEPT ![h].pc = "log", ![h].row = calls[h].id,
                            ![h].role = tasks[calls[h].id].assignedTo]
  /\ UNCHANGED <<agents, projects, agentMessages, agentConnections, agentStatus, ws>>

\* An update that does not throw for a missing row: the handler goes on to
\* log the status message.
UpdateTaskRejectStillLogs(h) ==
  /\ calls[h].op = "update_task_status" /\ calls[h].pc = "write"
  /\ calls[h].id \notin DOMAIN tasks
  /\ calls' = [calls EXCEPT ![h].pc = "log", ![h].row = calls[h].id]
  /\ UNCHANGED <<agents, projects, tasks, agentMessages, agentConnections, agentStatus, ws>>

\* prisma.task.update throws when no row has the id
UpdateTaskReject(h) ==
  /\ calls[h].op = "update_task_status" /\ calls[h].pc = "write"
  /\ calls[h].id \notin DOMAIN tasks
  /\ calls' = [calls EXCEPT ![h].pc = "done", ![h].isError = TRUE]
  /\ UNCHANGED <<agents, projects, tasks, agentMessages, agentConnections, agentStatus, ws>>

\* toAgent: task.assignedTo || "UNASSIGNED"
UpdateTaskLog(h) ==
  /\ calls[h].op = "update_task_status" /\ calls[h].pc = "log"
  /\ agentMessages' = Append(agentMessages,
       [fromAgent |-> "SYSTEM",
        toAgent |-> IF calls[h].role # Null THEN calls[h].role ELSE "UNASSIGNED",
        messageType |-> "task_status_update",
        taskId |-> calls[h].row, status |-> "SENT"])
  /\ calls' = [calls EXCEPT ![h].pc = "done"]
  /\ UNCHANGED <<agents, projects, tasks, agentConnections, agentStatus, ws>>

\* ---- send_agent_message ----------------------------------------------------
SendAgentMessageCommit(h) ==
  /\ calls[h].op = "send_agent_message" /\ calls[h].pc = "write"
  /\ agentMessages' = Append(agentMessages,
       [fromAgent |-> "SYSTEM", toAgent |-> calls[h].role,
        messageType |-> calls[h].messageType, taskId |-> 0, status |-> "SENT"])
  /\ calls' = [calls EXCEPT ![h].pc = "push", ![h].row = Len(agentMessages) + 1]
  /\ UNCHANGED <<agents, projects, tasks, agentConnections, agentStatus, ws>>

SendAgentMessageNotify(h) ==
  /\ calls[h].op = "send_agent_message" /\ NotifyReady(calls[h])
  /\ LET targets == IF calls[h].role = Broadcast THEN BroadcastTargets
                    ELSE RoleTargets(calls[h].role)
     IN /\ calls' = [calls EXCEPT ![h].pc = "done", ![h].sent = targets]
        /\ agentMessages' = StoreAfterPush(agentMessages, calls[h].op, calls[h].row, targets)
  /\ UNCHANGED <<agents, projects, tasks, agentConnections, agentStatus, ws>>

\* ---- the handler returns its envelope --------------------------------------
CallReturn(h) ==
  /\ calls[h].pc = "done"
  /\ calls' = [calls EXCEPT ![h] = IdleSlot]
  /\ UNCHANGED <<agents, projects, tasks, agentMessages, agentConnections, agentStatus, ws>>

NextCoord ==
  \* each client claims an agent id of its own (the number of its connection)
  \/ \E w \in Conns, r \in WsRoleInputs : WsRegister(w, w, r)
  \/ \E w \in Conns : WsClose(w)
  \/ \E h \in Handlers, n \in ProjectNameInputs : CallCreateProject(h, n)
  \/ \E h \in Handlers, p \in RowIdInputs, r \in AssignInputs : CallCreateTask(h, p, r)
  \/ \E h \in Handlers, t \in RowIdInputs, st \in StatusInputs : CallUpdateTaskStatus(h, t, st)
  \/ \E h \in Handlers, to \in ToAgentInputs, mt \in MessageTypeInputs :
       CallSendAgentMessage(h, to, mt)
  \/ \E h \in Handlers : StoreFault(h)
  \/ \E h \in Handlers : CreateProjectCommit(h)
  \/ \E h \in Handlers : CreateProjectNotify(h)
  \/ \E h \in Handlers : CreateTaskCommit(h)
  \/ \E h \in Handlers : CreateTaskReject(h)
  \/ \E h \in Handlers : CreateTaskNotify(h)
  \/ \E h \in Handlers : UpdateTaskCommit(h)
  \/ \E h \in Handlers : UpdateTaskReject(h)
  \/ \E h \in Handlers : UpdateTaskLog(h)
  \/ \E h \in Handlers : SendAgentMessageCommit(h)
  \/ \E h \in Handlers : SendAgentMessageNotify(h)
  \/ \E h \in Handlers : CallReturn(h)

\* ---- get_project_status ---------------------------------------------------
CallGetProjectStatus(h, projectId) ==
  /\ calls[h].pc = "idle"
  /\ calls' = [calls EXCEPT ![h] = [NewCall("get_project_status", Null, projectId, Null, Null)
                                     EXCEPT !.pc = "read"]]
  /\ UNCHANGED <<agents, projects, tasks, agentMessages, agentConnections, agentStatus, ws>>

\* findUnique resolves; if (!project) return { content: [...] }, and the
\* aggregate is returned in the same shape: neither return sets isError.
\* row: the project found, 0 when findUnique gave null.
GetProjectStatusFind(h) ==
  /\ calls[h].op = "get_project_status" /\ calls[h].pc = "read"
  /\ calls' = [calls EXCEPT ![h].pc = "done",
                            ![h].row = IF calls[h].id \in DOMAIN projects
                                       THEN calls[h].id ELSE 0]
  /\ UNCHANGED <<agents, projects, tasks, agentMessages, agentConnections, agentStatus, ws>>

\* ---- get_agent_tasks ------------------------------------------------------
\* priority is a TEXT column: ORDER BY compares the strings, and of the four
\* values "HIGH" < "LOW" < "MEDIUM" < "URGENT".
TextRank(p) ==
  CASE p = "HIGH" -> 1 [] p = "LOW" -> 2 [] p = "MEDIUM" -> 3 [] p = "URGENT" -> 4

\* orderBy: [{ priority: "desc" }, { createdAt: "asc" }]: row i comes before
\* row j (ids follow creation order)
ComesBefore(rows, i, j) ==
  \/ TextRank(rows[i].priority) > TextRank(rows[j].priority)
  \/ rows[i].priority = rows[j].priority /\ i < j

RECURSIVE OrderBy(_, _)
OrderBy(rows, ids) ==
  IF ids = {} THEN << >>
  ELSE LET first == CHOOSE i \in ids : \A j \in ids \ {i} : ComesBefore(rows, i, j)
       IN << first >> \o OrderBy(rows, ids \ {first})

\* prisma.task.findMany where assignedTo (and status, when given), ordered:
\* the ids of the rows, in the order returned
FindAgentTasks(rows, agentRole, status) ==
  OrderBy(rows, {i \in DOMAIN rows :
                   /\ rows[i].assignedTo = agentRole
                   /\ status # Null => rows[i].status = status})

CallGetAgentTasks(h, agentRole, status) ==
  /\ calls[h].pc = "idle"
  /\ calls' = [calls EXCEPT ![h] = [NewCall("get_agent_tasks", agentRole, 0, status, Null)
                                     EXCEPT !.pc = "read"]]
  /\ UNCHANGED <<agents, projects, tasks, agentMessages, agentConnections, agentStatus, ws>>

GetAgentTasksFind(h) ==
  /\ calls[h].op = "get_agent_tasks" /\ calls[h].pc = "read"
  /\ calls' = [calls EXCEPT ![h].pc = "done",
                            ![h].found = FindAgentTasks(tasks, calls[h].role, calls[h].status)]
  /\ UNCHANGED <<agents, projects, tasks, agentMessages, agentConnections, agentStatus, ws>>

\* The task rows get_agent_tasks is run against: tasks of one project, as
\* create_task and update_task_status leave them.
ListedRows ==
  {[projectId |-> 1, assignedTo |-> r, status |-> st, priority |-> p,
    startedAt |-> NoTime, completedAt |-> IF st = "DONE" THEN 0 ELSE NoTime] :
     r \in ListedRoles, st \in ListedStatuses, p \in PriorityInputs}

InitTasks ==
  /\ InitQueue /\ InitRest
  /\ projects = << [status |-> "PLANNING", priority |-> "MEDIUM"] >>
  /\ tasks \in UNION {[1..n -> ListedRows] : n \in 0..MaxListed}
  /\ agentMessages = << >>
  /\ agents = << >>
  /\ agentConnections = << >>
  /\ agentStatus = << >>
  /\ ws = [w \in Conns |-> "none"]
  /\ calls = [h \in Handlers |-> IdleSlot]
  /\ now = 0
  /\ wsLast = NoFrame

NextTasks ==
  \/ \E h \in Handlers, r \in AgentRoleFilterInputs, st \in StatusFilterInputs :
       CallGetAgentTasks(h, r, st)
  \/ \E h \in Handlers : GetAgentTasksFind(h)
  \/ \E h \in Handlers : StoreFault(h)
  \/ \E h \in Handlers : CallReturn(h)

\* ---- register_agent -------------------------------------------------------
\* An upsert that always takes its create branch.
UpsertInsertOnly(rows, name, role) ==
  Append(rows, [name |-> name, role |-> role, status |-> "ONLINE"])

\* prisma.agent.upsert where name_role: the row of the pair is updated to
\* ONLINE, or created ONLINE when the pair has no row.
Upsert(rows, name, role) ==
  IF \E i \in DOMAIN rows : rows[i].name = name /\ rows[i].role = role
  THEN [i \in DOMAIN rows |->
          IF rows[i].name = name /\ rows[i].role = role
          THEN [rows[i] EXCEPT !.status = "ONLINE"] ELSE rows[i]]
  ELSE Append(rows, [name |-> name, role |-> role, status |-> "ONLINE"])

\* The row upsert returns (agent.id): the latest row of the pair.
UpsertedRow(rows, name, role) ==
  LET hits == {i \in DOMAIN rows : rows[i].name = name /\ rows[i].role = role}
  IN CHOOSE i \in hits : \A j \in hits : j <= i

CallRegisterAgent(h, name, role) ==
  /\ calls[h].pc = "idle"
  /\ StoreHasRoom
  /\ calls' = [calls EXCEPT ![h] = [NewCall("register_agent", role, 0, Null, Null)
                                     EXCEPT !.name = name]]
  /\ UNCHANGED <<agents, projects, tasks, agentMessages, agentConnections, agentStatus, ws>>

RegisterAgentUpsert(h) ==
  /\ calls[h].op = "register_agent" /\ calls[h].pc = "write"
  /\ agents' = Upsert(agents, calls[h].name, calls[h].role)
  /\ calls' = [calls EXCEPT ![h].pc = "push",
                            ![h].row = UpsertedRow(agents', calls[h].name, calls[h].role)]
  /\ UNCHANGED <<projects, tasks, agentMessages, agentConnections, agentStatus, ws>>

\* agentStatus.set(agent.id, { role: agent.role, ... }); return
RegisterAgentTrack(h) ==
  /\ calls[h].op = "register_agent" /\ NotifyReady(calls[h])
  /\ agentStatus' = MapSet(agentStatus, calls[h].row,
                           [role |-> calls[h].role, lastPing |-> now])
  /\ calls' = [calls EXCEPT ![h].pc = "done"]
  /\ UNCHANGED <<agents, projects, tasks, agentMessages, agentConnections, ws>>

\* ---- a tool name the switch has no case for -------------------------------
\* default: throw new Error(...), caught by the handler's catch block
CallUnknownTool(h) ==
  /\ calls[h].pc = "idle"
  /\ calls' = [calls EXCEPT ![h] = [NewCall("unknown_tool", Null, 0, Null, Null)
                                     EXCEPT !.pc = "done", !.isError = TRUE]]
  /\ UNCHANGED <<agents, projects, tasks, agentMessages, agentConnections, agentStatus, ws>>

\* The tools that need no connection: projects, lookups, agent rows.
NextGateway ==
  \/ \E h \in Handlers, n \in ProjectNameInputs : CallCreateProject(h, n)
  \/ \E h \in Handlers, p \in RowIdInputs : CallGetProjectStatus(h, p)
  \/ \E h \in Handlers, n \in AgentNameInputs, r \in AgentRoleInputs :
       CallRegisterAgent(h, n, r)
  \/ \E h \in Handlers : CallUnknownTool(h)
  \/ \E h \in Handlers : StoreFault(h)
  \/ \E h \in Handlers : CreateProjectCommit(h)
  \/ \E h \in Handlers : CreateProjectNotify(h)
  \/ \E h \in Handlers : GetProjectStatusFind(h)
  \/ \E h \in Handlers : RegisterAgentUpsert(h)
  \/ \E h \in Handlers : RegisterAgentTrack(h)
  \/ \E h \in Handlers : CallReturn(h)

\* ---- the socket's message handler, with its replies -----------------------
\* A reply that echoes the frame's agentId instead of the resolved one.
RegisteredReplyClaimed(claimed, agentId) ==
  << [type |-> "registered", agentId |-> claimed] >>

\* ws.send(JSON.stringify({ type: "registered", agentId, timestamp }))
RegisteredReply(claimed, agentId) ==
  << [type |-> "registered", agentId |-> agentId] >>

\* register frame: the maps are set, then the registered reply is sent
WsOnRegister(w, claimed, role) ==
  /\ WsRegister(w, claimed, role)
  /\ wsLast' = [conn |-> w, frame |-> "register", agentId |-> claimed,
                hit |-> MapHas(agentStatus, ResolveAgentId(claimed)),
                out |-> RegisteredReply(claimed, ResolveAgentId(claimed))]
  /\ UNCHANGED <<queueVars, now, restVars>>

\* A heartbeat that sets the entry whether or not the id has one.
TouchUpsert(m, agentId, t) ==
  MapSet(m, agentId,
         [role |-> IF MapHas(m, agentId) THEN MapGet(m, agentId).role ELSE Null,
          lastPing |-> t])

\* if (agentStatus.has(agentId)) agentStatus.set(agentId, { ...old, lastPing })
Touch(m, agentId, t) ==
  IF MapHas(m, agentId)
  THEN MapSet(m, agentId, [MapGet(m, agentId) EXCEPT !.lastPing = t])
  ELSE m

\* heartbeat frame: the entry of the id, if any, is touched; heartbeat_ack
WsOnHeartbeat(w, agentId) ==
  /\ ws[w] \in {"none", "open"}
  /\ ws' = [ws EXCEPT ![w] = "open"]
  /\ agentStatus' = Touch(agentStatus, agentId, now)
  /\ wsLast' = [conn |-> w, frame |-> "heartbeat", agentId |-> agentId,
                hit |-> MapHas(agentStatus, agentId),
                out |-> << [type |-> "heartbeat_ack", agentId |-> 0] >>]
  /\ UNCHANGED <<queueVars, agents, projects, tasks, agentMessages, agentConnections,
                 calls, now, restVars>>

\* A handler that closes the socket on a frame it cannot process.
WsOnMalformedCloses(w, kind) ==
  /\ ws[w] = "open"
  /\ ws' = [ws EXCEPT ![w] = "closing"]
  /\ wsLast' = [conn |-> w, frame |-> kind, agentId |-> 0, hit |-> FALSE, out |-> << >>]
  /\ UNCHANGED <<queueVars, agents, projects, tasks, agentMessages, agentConnections,
                 agentStatus, calls, now, restVars>>

\* JSON.parse throws into the handler's catch (console.error), or no branch
\* matches the type: nothing is set, nothing is sent
WsOnMalformed(w, kind) ==
  /\ ws[w] \in {"none", "open"}
  /\ ws' = [ws EXCEPT ![w] = "open"]
  /\ wsLast' = [conn |-> w, frame |-> kind, agentId |-> 0, hit |-> FALSE, out |-> << >>]
  /\ UNCHANGED <<queueVars, agents, projects, tasks, agentMessages, agentConnections,
                 agentStatus, calls, now, restVars>>

\* Time passes.
Tick ==
  /\ now < MaxTime
  /\ now' = now + 1
  /\ UNCHANGED <<queueVars, coordVars, wsLast, restVars>>

\* The sockets: frames of every kind, closes, and the clock.
NextSocket ==
  \/ \E w \in Conns, c \in ClaimedIdInputs, r \in WsRoleInputs : WsOnRegister(w, c, r)
  \/ \E w \in Conns, a \in HeartbeatIdInputs : WsOnHeartbeat(w, a)
  \/ \E w \in Conns, k \in MalformedInputs : WsOnMalformed(w, k)
  \/ \E w \in Conns : WsBeginClose(w) /\ UNCHANGED <<queueVars, socketVars, restVars>>
  \/ \E w \in Conns : WsClose(w) /\ UNCHANGED <<queueVars, socketVars, restVars>>
  \/ Tick

\* GET /health: connectedAgents
HealthConnectedAgents == Len(agentConnections)

\* The registry under register frames with any claimed id, closes (handled
\* as soon as the socket leaves OPEN) and pushes.
NextRegistry ==
  \/ \E w \in Conns, c \in ClaimedIdInputs, r \in WsRoleInputs : WsRegister(w, c, r)
  \/ \E w \in Conns : WsClose(w)
  \/ \E h \in Handlers, to \in PushInputs, mt \in MessageTypeInputs :
       CallSendAgentMessage(h, to, mt)
  \/ \E h \in Handlers : SendAgentMessageCommit(h)
  \/ \E h \in Handlers : SendAgentMessageNotify(h)
  \/ \E h \in Handlers : StoreFault(h)
  \/ \E h \in Handlers : CallReturn(h)

\* Agents that register by tool and connect: the agents table next to the
\* registry.
NextPresence ==
  \/ \E w \in Conns, c \in ClaimedIdInputs, r \in WsRoleInputs : WsRegister(w, c, r)
  \/ \E w \in Conns : WsBeginClose(w)
  \/ \E w \in Conns : WsClose(w)
  \/ \E h \in Handlers, n \in PresenceNameInputs, r \in WsRoleInputs :
       CallRegisterAgent(h, n, r)
  \/ \E h \in Handlers : RegisterAgentUpsert(h)
  \/ \E h \in Handlers : RegisterAgentTrack(h)
  \/ \E h \in Handlers : StoreFault(h)
  \/ \E h \in Handlers : CallReturn(h)

(***************************************************************************)
(* The specifications.                                                     *)
(***************************************************************************)
Init == InitQueue /\ InitCoord /\ InitRest

SpecQueue == Init /\ [][NextQueue /\ UNCHANGED <<coordVars, socketVars, restVars>>]_vars

SpecCoord == Init /\ [][NextCoord /\ UNCHANGED <<queueVars, socketVars, restVars>>]_vars

SpecGateway == Init /\ [][NextGateway /\ UNCHANGED <<queueVars, socketVars, restVars>>]_vars

SpecRegistry == Init /\ [][NextRegistry /\ UNCHANGED <<queueVars, socketVars, restVars>>]_vars

SpecPresence == Init /\ [][NextPresence /\ UNCHANGED <<queueVars, socketVars, restVars>>]_vars

\* The life of one task: update_task_status with every status of its schema,
\* against a working store, while the clock advances.  The task starts as
\* create_task and earlier updates (at time 0) can have left it: a task that
\* is IN_PROGRESS has been started, one that is DONE has been completed.
LifecycleRows ==
  {[projectId |-> 1, assignedTo |-> "DEV", status |-> st, priority |-> "MEDIUM",
    startedAt |-> sa, completedAt |-> ca] :
     st \in TaskStatuses, sa \in {NoTime, 0}, ca \in {NoTime, 0}}

InitLifecycle ==
  /\ InitQueue /\ InitRest
  /\ projects = << [status |-> "PLANNING", priority |-> "MEDIUM"] >>
  /\ \E row \in LifecycleRows :
       /\ row.status = "IN_PROGRESS" => row.startedAt # NoTime
       /\ row.status = "DONE" => row.completedAt # NoTime
       /\ tasks = << row >>
  /\ agentMessages = << >>
  /\ agents = << >>
  /\ agentConnections = << >>
  /\ agentStatus = << >>
  /\ ws = [w \in Conns |-> "none"]
  /\ calls = [h \in Handlers |-> IdleSlot]
  /\ now = 0
  /\ wsLast = NoFrame

NextLifecycle ==
  \/ /\ \/ \E h \in Handlers, t \in RowIdInputs, st \in TaskStatuses :
             CallUpdateTaskStatus(h, t, st)
        \/ \E h \in Handlers : UpdateTaskCommit(h)
        \/ \E h \in Handlers : UpdateTaskLog(h)
        \/ \E h \in Handlers : CallReturn(h)
     /\ UNCHANGED <<queueVars, socketVars, restVars>>
  \/ Tick

SpecLifecycle == InitLifecycle /\ [][NextLifecycle]_vars

\* Sockets that share agent ids: two sockets are open at once, registering under claimed or minted ids and
\* closing, next to the pushes of send_agent_message.
InitRebind ==
  /\ InitQueue /\ InitRest
  /\ projects = << >>
  /\ tasks = << >>
  /\ agentMessages = << >>
  /\ agents = << >>
  /\ agentConnections = << >>
  /\ agentStatus = << >>
  /\ ws = [w \in Sockets |-> "none"]
  /\ calls = [h \in Handlers |-> IdleSlot]
  /\ now = 0
  /\ wsLast = NoFrame

NextRebind ==
  \/ \E w \in Sockets, c \in ClaimedIdInputs, r \in WsRoleInputs : WsRegister(w, c, r)
  \/ \E w \in Sockets : WsClose(w)
  \/ \E h \in Handlers, to \in WsRoleInputs, mt \in MessageTypeInputs :
       CallSendAgentMessage(h, to, mt)
  \/ \E h \in Handlers : SendAgentMessageCommit(h)
  \/ \E h \in Handlers : SendAgentMessageNotify(h)
  \/ \E h \in Handlers : CallReturn(h)

SpecRebind == InitRebind /\ [][NextRebind /\ UNCHANGED <<queueVars, socketVars, restVars>>]_vars

\* The two maps under every event that writes them: register frames,
\* heartbeats, closing sockets and register_agent calls.
NextTracked ==
  \/ NextPresence /\ UNCHANGED <<queueVars, socketVars, restVars>>
  \/ \E w \in Conns, a \in HeartbeatIdInputs : WsOnHeartbeat(w, a)

SpecTracked == Init /\ [][NextTracked]_vars

(***************************************************************************)
(* The simple coordination server: its WebSocket handlers.  The register   *)
(* branch awaits its upsert; the close handler starts its update and does  *)
(* not wait for it.  Each store call resolves in a step of its own.        *)
(***************************************************************************)
\* ws.on("message"), type "register", up to the await: the map is set, the
\* upsert is started
SimpleOnRegister(w, agentId) ==
  /\ simpleSockets[w].state \in {"none", "open"}
  /\ simpleSockets[w].reg = "idle"
  /\ simpleConnections' = MapSet(simpleConnections, agentId, w)
  /\ simpleSockets' = [simpleSockets EXCEPT ![w] =
       [@ EXCEPT !.state = "open", !.reg = "upsert", !.agentId = agentId,
                 !.replied = FALSE, !.failed = FALSE]]
  /\ UNCHANGED simpleAgents

\* the upsert resolves: the row is ONLINE (created when missing); the handler
\* resumes and sends "registered" (a socket that is no longer open sends
\* nothing)
SimpleUpsertResolve(w) ==
  /\ simpleSockets[w].reg = "upsert"
  /\ simpleAgents' = [simpleAgents EXCEPT ![simpleSockets[w].agentId] = "ONLINE"]
  /\ simpleSockets' = [simpleSockets EXCEPT ![w] =
       [@ EXCEPT !.reg = "idle", !.replied = (simpleSockets[w].state = "open")]]
  /\ UNCHANGED simpleConnections

\* the upsert rejects: the catch block logs the error
SimpleUpsertReject(w) ==
  /\ simpleSockets[w].reg = "upsert"
  /\ simpleSockets' = [simpleSockets EXCEPT ![w] = [@ EXCEPT !.reg = "idle", !.failed = TRUE]]
  /\ UNCHANGED <<simpleConnections, simpleAgents>>

\* ws.on("close"): the first entry whose connection is this socket is
\* deleted and an update of its row to OFFLINE is started, not awaited
SimpleOnClose(w) ==
  /\ simpleSockets[w].state = "open"
  /\ LET hits == {i \in DOMAIN simpleConnections : simpleConnections[i].v = w}
     IN IF hits = {}
        THEN /\ simpleSockets' = [simpleSockets EXCEPT ![w] = [@ EXCEPT !.state = "closed"]]
             /\ UNCHANGED simpleConnections
        ELSE LET first == CHOOSE i \in hits : \A j \in hits : i <= j
                 agentId == simpleConnections[first].k
             IN /\ simpleConnections' = MapDelete(simpleConnections, agentId)
                /\ simpleSockets' = [simpleSockets EXCEPT ![w] =
                     [@ EXCEPT !.state = "closed", !.upd = agentId, !.gone = agentId]]
  /\ UNCHANGED simpleAgents

\* the update resolves: the row is OFFLINE; when no row has the id the update
\* rejects and .catch(console.error) logs it
SimpleUpdateResolve(w) ==
  /\ simpleSockets[w].upd # 0
  /\ simpleAgents' = [simpleAgents EXCEPT ![simpleSockets[w].upd] =
                        IF @ = "absent" THEN "absent" ELSE "OFFLINE"]
  /\ simpleSockets' = [simpleSockets EXCEPT ![w] = [@ EXCEPT !.upd = 0]]
  /\ UNCHANGED simpleConnections

NextSimple ==
  \/ \E w \in Sockets, a \in SimpleAgentIds : SimpleOnRegister(w, a)
  \/ \E w \in Sockets : SimpleUpsertResolve(w)
  \/ \E w \in Sockets : SimpleUpsertReject(w)
  \/ \E w \in Sockets : SimpleOnClose(w)
  \/ \E w \in Sockets : SimpleUpdateResolve(w)

SpecSimple ==
  Init /\ [][NextSimple /\ UNCHANGED <<queueVars, coordVars, socketVars,
                                       clientVars, sessionVars>>]_vars

(***************************************************************************)
(* TaskforceAgent (shared/src/agent-client.ts): its socket, its reconnect   *)
(* timeouts and its heartbeat intervals.                                    *)
(*   conn        readyState of this.wsConnection ("none": no socket yet)    *)
(*   reconnects  setTimeout callbacks scheduled and not yet run             *)
(*   heartbeats  setInterval timers running                                 *)
(*   down        shutdown() has been called                                 *)
(*   opened      WebSocket objects constructed so far                       *)
(*   beats       heartbeat frames sent in the last heartbeat interval       *)
(***************************************************************************)
\* initialize() -> initializeWebSocket(): new WebSocket(wsUrl)
AgentInitialize ==
  /\ agent.conn = "none" /\ agent.opened = 0
  /\ agent' = [agent EXCEPT !.conn = "connecting", !.opened = 1]

\* on("open"): the register frame is sent, startHeartbeat() sets an interval
AgentOnOpen ==
  /\ agent.conn = "connecting"
  /\ agent' = [agent EXCEPT !.conn = "open", !.heartbeats = @ + 1]

\* the connection is lost or refused (the peer closes, the network fails): the
\* socket goes to CLOSED and its close event is due
AgentDrop ==
  /\ agent.conn \in {"connecting", "open"}
  /\ agent' = [agent EXCEPT !.conn = "closing"]

\* shutdown(), called once on an agent that has been initialized:
\* this.wsConnection.close()
AgentShutdown ==
  /\ ~agent.down /\ agent.opened > 0
  /\ agent' = [agent EXCEPT !.down = TRUE,
                             !.conn = IF @ \in {"connecting", "open"} THEN "closing" ELSE @]

\* on("close"): setTimeout(() => this.initializeWebSocket(), 5000)
AgentOnClose ==
  /\ agent.conn = "closing"
  /\ agent' = [agent EXCEPT !.conn = "closed", !.reconnects = @ + 1]

\* the timeout fires: initializeWebSocket() constructs a new WebSocket
AgentReconnect ==
  /\ agent.reconnects > 0
  /\ agent.opened < MaxOpened
  /\ agent' = [agent EXCEPT !.reconnects = @ - 1, !.conn = "connecting", !.opened = @ + 1]

\* one heartbeat interval passes: every interval timer runs its callback
\* once, and each sends a heartbeat when this.wsConnection is OPEN
AgentHeartbeatInterval ==
  /\ agent.heartbeats > 0
  /\ agent' = [agent EXCEPT !.beats = IF agent.conn = "open" THEN agent.heartbeats ELSE 0]

NextClient ==
  \/ AgentInitialize
  \/ AgentOnOpen
  \/ AgentDrop
  \/ AgentShutdown
  \/ AgentOnClose
  \/ AgentReconnect
  \/ AgentHeartbeatInterval

SpecClient ==
  Init /\ [][NextClient /\ UNCHANGED <<queueVars, coordVars, socketVars,
                                       simpleVars, sessionVars>>]_vars

(***************************************************************************)
(* The MCP server's session table (mcp-server, /mcp routes).  A transport   *)
(* is named by its place in created; randomUUID() gives the transport that  *)
(* is initialized a session id no other transport has (here: its place).    *)
(* The transport's handleRequest answers 400 to a request that is not an    *)
(* initialize request before initialization and to a second initialize, and *)
(* closes the transport on DELETE.                                          *)
(***************************************************************************)
\* a session id header that no transport was ever given
UnknownSession == 99
\* mcp-session-id headers of requests: missing (0), ids of sessions, unknown
SessionIdInputs == {0, UnknownSession} \cup (1..MaxTransports)

\* if (sessionId && transports[sessionId])
KnownSession(sessionId) == sessionId # 0 /\ MapHas(transports, sessionId)

\* A transport whose onclose leaves the table as it is.
OnCloseKeeps(table, sessionId) == table

\* transport.onclose: delete transports[transport.sessionId]
OnClose(table, sessionId) == MapDelete(table, sessionId)

\* app.post("/mcp")
PostMcp(sessionId, isInitialize) ==
  IF KnownSession(sessionId)
  THEN /\ httpLast' = [method |-> "POST", sessionId |-> sessionId,
                       status |-> IF isInitialize THEN 400 ELSE 200,
                       transport |-> MapGet(transports, sessionId)]
       /\ UNCHANGED <<transports, created>>
  ELSE /\ Len(created) < MaxTransports
       /\ LET t == Len(created) + 1
          IN /\ created' = Append(created, [sessionId |-> IF isInitialize THEN t ELSE 0,
                                            closed |-> FALSE])
             /\ transports' = IF isInitialize THEN MapSet(transports, t, t) ELSE transports
             /\ httpLast' = [method |-> "POST", sessionId |-> sessionId,
                             status |-> IF isInitialize THEN 200 ELSE 400,
                             transport |-> t]

\* app.get("/mcp")
GetMcp(sessionId) ==
  /\ httpLast' = IF KnownSession(sessionId)
                 THEN [method |-> "GET", sessionId |-> sessionId, status |-> 200,
                       transport |-> MapGet(transports, sessionId)]
                 ELSE [method |-> "GET", sessionId |-> sessionId, status |-> 400,
                       transport |-> 0]
  /\ UNCHANGED <<transports, created>>

\* app.delete("/mcp"): the transport handles DELETE by closing itself
DeleteMcp(sessionId) ==
  IF KnownSession(sessionId)
  THEN LET t == MapGet(transports, sessionId)
       IN /\ created' = [created EXCEPT ![t].closed = TRUE]
          /\ transports' = OnClose(transports, created[t].sessionId)
          /\ httpLast' = [method |-> "DELETE", sessionId |-> sessionId, status |-> 200,
                          transport |-> t]
  ELSE /\ httpLast' = [method |-> "DELETE", sessionId |-> sessionId, status |-> 400,
                       transport |-> 0]
       /\ UNCHANGED <<transports, created>>

NextSessions ==
  \/ \E sid \in SessionIdInputs, init \in BOOLEAN : PostMcp(sid, init)
  \/ \E sid \in SessionIdInputs : GetMcp(sid)
  \/ \E sid \in SessionIdInputs : DeleteMcp(sid)

SpecSessions ==
  Init /\ [][NextSessions /\ UNCHANGED <<queueVars, coordVars, socketVars,
                                         simpleVars, clientVars>>]_vars

\* An agent that pulls: messages are persisted by both servers' send tools
\* and pulled with get_messages, the only tool that marks messages read.
PullCallers == {1}
PullRoles == {"DEV"}

NextPull ==
  \/ /\ \/ \E to \in QueueRoles, type \in MsgTypes : SendMessage(to, type)
        \/ \E p \in PullCallers, R \in PullRoles : GetMessagesSelect(p, R, TRUE)
        \/ \E p \in PullCallers : GetMessagesUpdate(p)
        \/ \E p \in PullCallers : GetMessagesReturn(p)
     /\ UNCHANGED <<coordVars, socketVars, restVars>>
  \/ /\ \/ \E h \in Handlers, to \in PushInputs, mt \in MessageTypeInputs :
             CallSendAgentMessage(h, to, mt)
        \/ \E h \in Handlers : SendAgentMessageCommit(h)
        \/ \E h \in Handlers : SendAgentMessageNotify(h)
        \/ \E h \in Handlers : CallReturn(h)
     /\ UNCHANGED <<queueVars, socketVars, restVars>>

SpecPull == Init /\ [][NextPull]_vars

SpecTasks == InitTasks /\ [][NextTasks /\ UNCHANGED <<queueVars, socketVars, restVars>>]_vars

SpecSocket == Init /\ [][NextSocket]_vars

\* The clock keeps running; frames and closes are up to the clients.
SpecSocketFair == SpecSocket /\ WF_vars(Tick)

(***************************************************************************)
(* Claims about the message queue (checked under SpecQueue).               *)
(***************************************************************************)

\* C1: no duplicate delivery on pull -- the sets of rows that two consume
\* calls (getMessages with markAsRead = true) return are disjoint, whatever
\* the interleaving of their selects and updates.
C1_NoDuplicateDelivery ==
  \A p, q \in Callers :
    (p # q /\ gm[p].pc # "idle" /\ gm[q].pc # "idle"
       /\ gm[p].markAsRead /\ gm[q].markAsRead)
    => gm[p].rows \cap gm[q].rows = {}

\* C2: no loss on pull -- when a batch of overlapping consume(R) calls ends,
\* every message that was unread for R when the batch started has been
\* returned by one of its calls, and with no send to R during the batch the
\* union of the returned sets is exactly that set.
C2_NoLossOnPull ==
  [][\A R \in QueueRoles :
       (batch[R].open /\ ~batch'[R].open)
       => /\ batch[R].start \subseteq batch[R].got
          /\ (~batch[R].sent => batch[R].got = batch[R].start)]_vars

\* C2 witness: a batch of two overlapping consume calls over two unread
\* messages, with no send during it, all of whose calls are about to return.
C2_Witness ==
  \E R \in QueueRoles :
    /\ batch[R].open /\ ~batch[R].sent
    /\ Cardinality(batch[R].start) >= 2
    /\ Cardinality(ConsumesInProgress(R)) >= 2
    /\ \A p \in ConsumesInProgress(R) : gm[p].pc = "return"

\* C3: consumption state is monotonic -- a row that is read stays in the
\* table and stays read across every step of sendMessage and getMessages.
C3_ReadMonotonic ==
  [][\A i \in DOMAIN messages :
       messages[i].read => (i \in DOMAIN messages' /\ messages'[i].read)]_vars

\* C3 witness: a call is about to update a row that another call has already
\* marked read.
C3_Witness ==
  \E p \in Callers : \E i \in gm[p].rows :
    gm[p].pc = "update" /\ messages[i].read

\* C6: sequential consume empties the queue -- a getMessages(R) that selects
\* after a consume(R) has completed, with no send to R since that consume
\* selected, gets no rows.
C6_SecondConsumeEmpty ==
  \A p \in Callers :
    (gm[p].pc # "idle" /\ gm[p].afterQuiet) => gm[p].rows = {}

\* C6 witness: a second consume has selected after a first one returned a
\* message (now read) and nothing was sent in between.
C6_Witness ==
  \E p \in Callers :
    /\ gm[p].pc = "return" /\ gm[p].markAsRead /\ gm[p].afterQuiet
    /\ \E i \in DOMAIN messages :
         messages[i].toAgent = gm[p].agentRole /\ messages[i].read

(***************************************************************************)
(* Claims about the coordination server (checked under SpecCoord).         *)
(***************************************************************************)
\* The table an operation's first store write goes to.
TableOf(op) ==
  CASE op = "create_project" -> projects
    [] op = "create_task" -> tasks
    [] op = "update_task_status" -> tasks
    [] OTHER -> agentMessages

\* C4: when create_task with assignedTo = R has succeeded, exactly one
\* TASK_ASSIGNMENT message addressed to R is in the message store for the
\* task it created.
C4_TaskAssignmentPersisted ==
  \A h \in Handlers :
    (calls[h].pc = "done" /\ calls[h].op = "create_task"
       /\ ~calls[h].isError /\ calls[h].role # Null)
    => Cardinality({i \in DOMAIN agentMessages :
                      /\ agentMessages[i].messageType = "TASK_ASSIGNMENT"
                      /\ agentMessages[i].toAgent = calls[h].role
                      /\ agentMessages[i].taskId = calls[h].row}) = 1

\* C5: persistence precedes push -- a call has sent frames only if its store
\* write committed (the row it wrote is in its table), and a call whose
\* store write failed has sent no frame.
C5_PersistBeforePush ==
  \A h \in Handlers :
    /\ calls[h].sent # << >>
       => (~calls[h].isError /\ calls[h].row \in DOMAIN TableOf(calls[h].op))
    /\ calls[h].isError => calls[h].sent = << >>

\* C5 witness: a create_project or create_task call has committed its row
\* and then pushed a frame to a connection.
C5_Witness ==
  \E h \in Handlers :
    /\ calls[h].pc = "done" /\ calls[h].op \in {"create_project", "create_task"}
    /\ Len(calls[h].sent) > 0
    /\ calls[h].row \in DOMAIN TableOf(calls[h].op)

\* C7: push never changes consumption state -- the step in which a handler
\* runs sendMessageToAgent or broadcastToAgents leaves every row of the
\* message table as it was, whoever it reaches.
C7_PushLeavesMessageRows ==
  [][\A h \in Handlers :
       (calls[h].pc = "push" /\ calls'[h].pc = "done")
       => agentMessages' = agentMessages]_vars

\* C7 witness: send_agent_message has pushed its message to a connection and
\* the row it persisted is still SENT.
C7_Witness ==
  \E h \in Handlers :
    /\ calls[h].pc = "done" /\ calls[h].op = "send_agent_message"
    /\ Len(calls[h].sent) > 0
    /\ calls[h].row \in DOMAIN agentMessages
    /\ agentMessages[calls[h].row].status = "SENT"

\* C8: a delivery miss is not an error -- send_agent_message whose push
\* reached no connection returns success, its message is persisted with
\* status SENT, and persisted messages stay SENT.
C8_DeliveryMissNotError ==
  /\ \A h \in Handlers :
       (calls[h].pc = "done" /\ calls[h].op = "send_agent_message"
          /\ calls[h].row # 0 /\ calls[h].sent = << >>)
       => /\ ~calls[h].isError
          /\ calls[h].row \in DOMAIN agentMessages
          /\ agentMessages[calls[h].row].toAgent = calls[h].role
  /\ \A i \in DOMAIN agentMessages : agentMessages[i].status = "SENT"

\* C8 witness: send_agent_message to a known role returned success having
\* reached no connection.
C8_Witness ==
  \E h \in Handlers :
    /\ calls[h].pc = "done" /\ calls[h].op = "send_agent_message"
    /\ calls[h].role \in KnownRoles
    /\ calls[h].sent = << >> /\ ~calls[h].isError
    /\ calls[h].row \in DOMAIN agentMessages

\* C9: send_agent_message whose toAgent is neither a known role nor
\* broadcast is rejected before any store write: it creates no row, pushes
\* no frame and ends with the error envelope.
C9_UnknownTargetRejected ==
  \A h \in Handlers :
    (calls[h].op = "send_agent_message" /\ calls[h].role \notin KnownRoles \cup {Broadcast})
    => /\ calls[h].row = 0
       /\ calls[h].sent = << >>
       /\ calls[h].pc = "done" => calls[h].isError

\* C10: every persisted message whose toAgent is not broadcast names a
\* recognized role.
C10_MessageTargetsRecognized ==
  \A i \in DOMAIN agentMessages :
    agentMessages[i].toAgent # Broadcast => agentMessages[i].toAgent \in KnownRoles

\* C11: update_task_status with a taskId that no task has ends in the error
\* envelope, and the step in which the handler learns it leaves the tasks,
\* the messages and the projects as they were.
C11_MissingTaskLeavesStore ==
  [][\A h \in Handlers :
       (/\ calls[h].op = "update_task_status" /\ calls[h].pc = "write"
        /\ calls[h].id \notin DOMAIN tasks
        /\ calls'[h] # calls[h])
       => /\ calls'[h].pc = "done" /\ calls'[h].isError
          /\ tasks' = tasks /\ agentMessages' = agentMessages
          /\ projects' = projects]_vars

\* C11 witness: update_task_status for a task that does not exist has ended
\* with the error envelope.
C11_Witness ==
  \E h \in Handlers :
    /\ calls[h].op = "update_task_status" /\ calls[h].pc = "done"
    /\ calls[h].isError /\ calls[h].row = 0
    /\ calls[h].id \notin DOMAIN tasks

\* C12: every task references an existing project, and create_task whose
\* projectId resolves to no project inserts no task, pushes no frame and
\* ends with the error envelope.
C12_TaskProjectResolves ==
  /\ \A i \in DOMAIN tasks : tasks[i].projectId \in DOMAIN projects
  /\ \A h \in Handlers :
       (calls[h].op = "create_task" /\ calls[h].id \notin DOMAIN projects)
       => /\ calls[h].row = 0
          /\ calls[h].sent = << >>
          /\ calls[h].pc = "done" => calls[h].isError

\* C12 witness: create_task assigned to DEV for a project that does not
\* exist has ended with the error envelope while a DEV connection was open.
C12_Witness ==
  \E h \in Handlers :
    /\ calls[h].op = "create_task" /\ calls[h].pc = "done" /\ calls[h].isError
    /\ calls[h].id \notin DOMAIN projects
    /\ calls[h].role = "DEV" /\ Len(RoleTargets("DEV")) > 0

\* C14: create_project with an empty name writes no project and ends with
\* the error envelope; with a non-empty name, when it succeeds, the project
\* it inserted has status PLANNING.
C14_EmptyNameRejected ==
  \A h \in Handlers :
    calls[h].op = "create_project"
    => /\ calls[h].name = ""
          => (calls[h].row = 0 /\ (calls[h].pc = "done" => calls[h].isError))
       /\ (calls[h].name # "" /\ calls[h].pc = "done" /\ ~calls[h].isError)
          => /\ calls[h].row \in DOMAIN projects
             /\ projects[calls[h].row].status = "PLANNING"

(***************************************************************************)
(* Claims about the tools that need no connection (checked under           *)
(* SpecGateway).                                                           *)
(***************************************************************************)

\* C13: get_project_status whose projectId resolves to no project ends with
\* the failure envelope (isError: true).
C13_UnresolvedProjectIsError ==
  \A h \in Handlers :
    (calls[h].op = "get_project_status" /\ calls[h].pc = "done"
       /\ calls[h].id \notin DOMAIN projects)
    => calls[h].isError

\* C15: every call that failed -- it wrote and resolved nothing: a store
\* call was rejected, an id did not resolve, the tool name is unknown --
\* ends with the error envelope.
C15_FailureIsErrorEnvelope ==
  \A h \in Handlers :
    (calls[h].pc = "done" /\ calls[h].row = 0) => calls[h].isError

\* C16: register_agent is an idempotent upsert -- no two agent rows share a
\* (name, role) pair, and a register_agent that has resolved holds the one
\* row of its pair, with status ONLINE.
C16_RegisterAgentUpsert ==
  /\ \A i, j \in DOMAIN agents :
       (agents[i].name = agents[j].name /\ agents[i].role = agents[j].role) => i = j
  /\ \A h \in Handlers :
       (calls[h].op = "register_agent" /\ calls[h].pc \in {"push", "done"}
          /\ ~calls[h].isError)
       => /\ calls[h].row \in DOMAIN agents
          /\ agents[calls[h].row].name = calls[h].name
          /\ agents[calls[h].row].role = calls[h].role
          /\ agents[calls[h].row].status = "ONLINE"

\* C16 witness: a register_agent has resolved to the first agent row after a
\* second pair was registered, i.e. its pair was registered again.
C16_Witness ==
  \E h \in Handlers :
    /\ calls[h].op = "register_agent" /\ calls[h].pc = "done" /\ ~calls[h].isError
    /\ calls[h].row = 1 /\ Len(agents) >= 2

(***************************************************************************)
(* Claims about the registry (checked under SpecRegistry).                 *)
(***************************************************************************)

\* C17: a connection whose close has been processed receives no further
\* push -- every connection a role-targeted delivery or a broadcast sends
\* to is open when the delivery runs.
C17_NoPushAfterClose ==
  [][\A h \in Handlers :
       calls'[h].sent # calls[h].sent
       => \A k \in DOMAIN calls'[h].sent : ws[calls'[h].sent[k]] = "open"]_vars

\* C17 witness: send_agent_message has persisted its row and is about to run
\* the fan-out while the registry still holds an entry whose socket has
\* closed.
C17_Witness ==
  \E h \in Handlers :
    /\ calls[h].op = "send_agent_message" /\ calls[h].pc = "push"
    /\ \E i \in DOMAIN agentConnections : ws[agentConnections[i].v] = "closed"

\* C18: registration is idempotent per connection -- the registry never
\* holds more than one mapping for a connection.
C18_OneMappingPerConnection ==
  \A w \in Conns :
    Cardinality({i \in DOMAIN agentConnections : agentConnections[i].v = w}) <= 1

\* C19: deregistration is complete on close -- no entry of agentConnections
\* refers to a socket whose close has been handled, so the health
\* endpoint's connectedAgents counts entries of open sockets only.
C19_DeregistrationComplete ==
  /\ \A i \in DOMAIN agentConnections : ws[agentConnections[i].v] = "open"
  /\ HealthConnectedAgents
       = Len(SelectSeq(agentConnections, LAMBDA e : ws[e.v] = "open"))

(***************************************************************************)
(* Claims about agent rows and connections (checked under SpecPresence).   *)
(***************************************************************************)

\* C20: when the close of a registered connection is handled, the agent row
\* of the id it was registered under becomes OFFLINE, and no agent row is
\* ever deleted.
C20_OfflineOnClose ==
  [][/\ \A i \in DOMAIN agents : i \in DOMAIN agents'
     /\ \A w \in Conns : \A i \in DOMAIN agentConnections :
          (/\ agentConnections[i].v = w
           /\ ws[w] \in {"open", "closing"} /\ ws'[w] \notin {"open", "closing"}
           /\ agentConnections[i].k \in DOMAIN agents)
          => agents'[agentConnections[i].k].status = "OFFLINE"]_vars

(***************************************************************************)
(* Further claims about the message queue (checked under SpecQueue).       *)
(***************************************************************************)

\* C26: send-then-get visibility -- a message that send_message has stored
\* is unread, and a getMessages(R) that starts returns every message for R
\* that is stored and unread at that moment (so PM's ping reaches DEV and
\* DEV's pong reaches PM).
C26_SendThenGetVisible ==
  [][/\ Len(messages') = Len(messages) + 1 => ~messages'[Len(messages')].read
     /\ \A p \in Callers :
          (gm[p].pc = "idle" /\ gm'[p].pc # "idle")
          => gm'[p].rows = {i \in DOMAIN messages :
                             messages[i].toAgent = gm'[p].agentRole /\ ~messages[i].read}]_vars

\* C26 witness: PM's get_messages has selected a message from DEV that was
\* sent after DEV consumed a message from PM (ping, then pong).
C26_Witness ==
  \E p \in Callers :
    /\ gm[p].pc # "idle" /\ gm[p].agentRole = "PM"
    /\ \E i \in gm[p].rows : \E j \in DOMAIN messages :
         /\ j < i /\ messages[i].fromAgent = "DEV"
         /\ messages[j].toAgent = "DEV" /\ messages[j].read

\* C29: consume marks exactly what it returns -- the update of a call sets
\* read on the rows the call selected and on no other row, and the call
\* returns those rows; a row inserted since the select stays unread.
C29_MarksWhatItReturns ==
  [][\A p \in Callers :
       (gm[p].pc = "update" /\ gm'[p].pc = "return")
       => /\ gm'[p].rows = gm[p].rows
          /\ \A i \in DOMAIN messages :
               messages'[i].read = (messages[i].read \/ i \in gm[p].rows)]_vars

\* C29 witness: a consume has marked the rows it selected while a message
\* for its role, inserted after its select, is still unread.
C29_Witness ==
  \E p \in Callers :
    /\ gm[p].pc = "return" /\ gm[p].markAsRead /\ gm[p].rows # {}
    /\ \A i \in gm[p].rows : messages[i].read
    /\ \E i \in DOMAIN messages \ gm[p].rows :
         messages[i].toAgent = gm[p].agentRole /\ ~messages[i].read

\* C30: pull is role-isolated -- the rows getMessages(R) holds are all
\* addressed to R, and its update changes no row addressed to another role.
C30_RoleIsolated ==
  [][\A p \in Callers :
       /\ gm'[p].pc # "idle"
          => \A i \in gm'[p].rows : messages'[i].toAgent = gm'[p].agentRole
       /\ (gm[p].pc = "update" /\ gm'[p].pc = "return")
          => \A i \in DOMAIN messages :
               messages[i].toAgent # gm[p].agentRole => messages'[i] = messages[i]]_vars

\* C30 witness: a consume for DEV has marked its rows while a message for PM
\* is unread.
C30_Witness ==
  \E p \in Callers :
    /\ gm[p].pc = "return" /\ gm[p].markAsRead /\ gm[p].agentRole = "DEV"
    /\ gm[p].rows # {}
    /\ \E i \in DOMAIN messages : messages[i].toAgent = "PM" /\ ~messages[i].read

(***************************************************************************)
(* Claims about the socket's message handler (checked under SpecSocket).   *)
(***************************************************************************)

\* C21: a heartbeat for an agent id without an entry leaves agentStatus and
\* agentConnections as they were; a heartbeat for a known id sets that
\* entry's lastPing to the current time, keeps its role and its place, and
\* changes no other entry.
C21_HeartbeatTouchesOnlyKnown ==
  [][\A w \in Conns, a \in HeartbeatIdInputs :
       WsOnHeartbeat(w, a)
       => /\ agentConnections' = agentConnections
          /\ ~MapHas(agentStatus, a) => agentStatus' = agentStatus
          /\ MapHas(agentStatus, a)
             => /\ Len(agentStatus') = Len(agentStatus)
                /\ \A i \in DOMAIN agentStatus :
                     IF agentStatus[i].k = a
                     THEN agentStatus'[i] =
                            [k |-> a, v |-> [role |-> agentStatus[i].v.role,
                                             lastPing |-> now]]
                     ELSE agentStatus'[i] = agentStatus[i]]_vars

\* C21 witness: the handler has just processed a heartbeat for an id without
\* an entry while another agent, registered earlier in time, has one.
C21_Witness ==
  /\ wsLast.frame = "heartbeat" /\ ~wsLast.hit
  /\ ~MapHas(agentStatus, wsLast.agentId)
  /\ \E i \in DOMAIN agentStatus : agentStatus[i].v.lastPing < now

\* The agent ids a registry entry can have.
RegistryIds == (ClaimedIdInputs \ {0}) \cup MintIds

\* An entry whose last liveness is in the past.
Stale(a) == MapHas(agentStatus, a) /\ MapGet(agentStatus, a).lastPing < now

\* C22: stale connections are evicted -- as time goes on, an entry that is
\* not refreshed does not stay in the registry for ever, even when no close
\* event arrives: again and again the id has no stale entry.  (Checked
\* under SpecSocketFair.)
C22_StaleEvicted ==
  \A a \in RegistryIds : []<>~Stale(a)

\* C24: a register frame is answered with exactly one registered reply, on
\* the connection it came from, carrying the resolved agent id (the claimed
\* one, or an id that had no entry); after it both maps hold that id, with
\* this connection and the frame's role.
C24_RegisterAnswered ==
  [][\A w \in Conns, c \in ClaimedIdInputs, r \in WsRoleInputs :
       WsOnRegister(w, c, r)
       => /\ wsLast'.conn = w /\ Len(wsLast'.out) = 1
          /\ wsLast'.out[1].type = "registered"
          /\ LET id == wsLast'.out[1].agentId
             IN /\ c # 0 => id = c
                /\ c = 0 => (/\ id \in MintIds
                              /\ ~MapHas(agentConnections, id)
                              /\ ~MapHas(agentStatus, id))
                /\ MapHas(agentConnections', id) /\ MapGet(agentConnections', id) = w
                /\ MapHas(agentStatus', id) /\ MapGet(agentStatus', id).role = r]_vars

\* C24 witness: the handler has just answered a register frame that claimed
\* no id, and the registry maps the minted id to that connection.
C24_Witness ==
  /\ wsLast.frame = "register" /\ wsLast.agentId = 0
  /\ Len(wsLast.out) = 1 /\ wsLast.out[1].agentId \in MintIds
  /\ MapHas(agentConnections, wsLast.out[1].agentId)
  /\ MapGet(agentConnections, wsLast.out[1].agentId) = wsLast.conn

\* C25: a malformed frame is dropped -- the connection stays open (so its
\* later frames are handled), both maps are unchanged and nothing is sent.
C25_MalformedDropped ==
  [][\A w \in Conns, k \in MalformedInputs :
       WsOnMalformed(w, k)
       => /\ ws'[w] = "open"
          /\ agentConnections' = agentConnections
          /\ agentStatus' = agentStatus
          /\ wsLast'.out = << >>]_vars

\* C25 witness: the handler has just dropped a malformed frame of a
\* registered connection, which is open and still registered.
C25_Witness ==
  /\ wsLast.frame \in MalformedInputs
  /\ wsLast.conn \in Conns /\ ws[wsLast.conn] = "open"
  /\ \E i \in DOMAIN agentConnections : agentConnections[i].v = wsLast.conn

(***************************************************************************)
(* A further claim about the registry (checked under SpecRegistry).        *)
(***************************************************************************)

\* The open connections an entry of the registry maps to, for a role or for
\* all roles.
OpenRegistered(target) ==
  {w \in Conns :
     /\ ws[w] = "open"
     /\ \E i \in DOMAIN agentConnections :
          /\ agentConnections[i].v = w
          /\ target # Broadcast
             => /\ MapHas(agentStatus, agentConnections[i].k)
                /\ MapGet(agentStatus, agentConnections[i].k).role = target}

\* C23: a push reaches exactly its audience -- the fan-out of
\* send_agent_message sends one frame to each open connection registered
\* with the target role (each open registered connection, for broadcast)
\* and no frame to any other connection.
C23_PushReachesExactlyRole ==
  [][\A h \in Handlers :
       (/\ calls[h].op = "send_agent_message"
        /\ calls[h].pc = "push" /\ calls'[h].pc = "done")
       => LET sent == calls'[h].sent
          IN /\ {sent[k] : k \in DOMAIN sent} = OpenRegistered(calls[h].role)
             /\ \A k1, k2 \in DOMAIN sent : sent[k1] = sent[k2] => k1 = k2]_vars

(***************************************************************************)
(* A claim about get_agent_tasks (checked under SpecTasks).                *)
(***************************************************************************)

\* The scale the priorities stand for: LOW < MEDIUM < HIGH < URGENT.
ScaleRank(p) ==
  CASE p = "LOW" -> 1 [] p = "MEDIUM" -> 2 [] p = "HIGH" -> 3 [] p = "URGENT" -> 4

\* C27: get_agent_tasks(role, status?) returns exactly the tasks assigned
\* to role (with the status, when one is given), each once, by priority
\* from URGENT down to LOW and, within a priority, oldest first.
C27_AgentTasksOrdered ==
  \A h \in Handlers :
    (calls[h].op = "get_agent_tasks" /\ calls[h].pc = "done" /\ ~calls[h].isError)
    => LET found == calls[h].found
       IN /\ {found[k] : k \in DOMAIN found}
               = {i \in DOMAIN tasks :
                    /\ tasks[i].assignedTo = calls[h].role
                    /\ calls[h].status # Null => tasks[i].status = calls[h].status}
          /\ \A k, l \in DOMAIN found :
               k < l
               => \/ ScaleRank(tasks[found[k]].priority) > ScaleRank(tasks[found[l]].priority)
                  \/ /\ tasks[found[k]].priority = tasks[found[l]].priority
                     /\ found[k] < found[l]

(***************************************************************************)
(* A claim about pulling broadcast messages (checked under SpecPull).      *)
(***************************************************************************)

\* The persisted messages addressed to everyone that are not marked read,
\* each named by its table and id.
PersistedBroadcasts ==
  {<<"messages", i>> : i \in {k \in DOMAIN messages :
       messages[k].toAgent = Broadcast /\ ~messages[k].read}}
  \cup {<<"agent_messages", j>> : j \in {k \in DOMAIN agentMessages :
       agentMessages[k].toAgent = Broadcast /\ agentMessages[k].status # "READ"}}

\* The rows a getMessages call holds for its caller: rows of messages.
Returned(c) == {<<"messages", i>> : i \in c.rows}

\* C28: consume(R) also returns the broadcast messages: every persisted
\* message with toAgent = broadcast that is not yet read is in the result
\* of consume(R).
C28_ConsumeReturnsBroadcast ==
  [][\A p \in Callers, R \in QueueRoles :
       GetMessagesSelect(p, R, TRUE) => PersistedBroadcasts \subseteq Returned(gm'[p])]_vars

(***************************************************************************)
(* A claim about peeking (checked under SpecQueue).                        *)
(***************************************************************************)

\* C31: peek leaves the state unchanged -- getMessages(R, markAsRead =
\* false) selects the unread messages addressed to R, never reaches the
\* update, and no step of the call changes a message, so the messages stay
\* available to a later peek or consume.
C31_PeekLeavesUnchanged ==
  [][\A p \in Callers :
       /\ \A R \in QueueRoles :
            GetMessagesSelect(p, R, FALSE)
            => /\ gm'[p].rows = {i \in DOMAIN messages :
                                   messages[i].toAgent = R /\ ~messages[i].read}
               /\ gm'[p].pc = "return"
               /\ messages' = messages
       /\ (gm[p].pc # "idle" /\ ~gm[p].markAsRead /\ gm'[p] # gm[p])
          => (gm'[p].pc = "idle" /\ messages' = messages)]_vars

\* a peek that found a message has returned, and the message is still unread
C31_Witness ==
  \E p \in Callers :
    /\ gm[p].pc = "return" /\ ~gm[p].markAsRead /\ gm[p].rows # {}
    /\ \A i \in gm[p].rows : ~messages[i].read

(***************************************************************************)
(* Claims about update_task_status (checked under SpecLifecycle).          *)
(***************************************************************************)

\* C32: update_task_status on an existing task sets startedAt (to the
\* current time) when the new status is IN_PROGRESS and completedAt when it
\* is DONE, and for every other new status leaves both timestamps as they
\* were: a completedAt that is set is not cleared when the task leaves DONE.
C32_TimestampsOnTransitions ==
  [][\A h \in Handlers :
       UpdateTaskCommit(h)
       => LET old == tasks[calls[h].id]
              new == tasks'[calls[h].id]
              st == calls[h].status
          IN /\ new.startedAt = IF st = "IN_PROGRESS" THEN now ELSE old.startedAt
             /\ new.completedAt = IF st = "DONE" THEN now ELSE old.completedAt]_vars

\* a task that was completed has left DONE and still has its completedAt
C32_Witness ==
  \E h \in Handlers :
    /\ calls[h].op = "update_task_status" /\ calls[h].pc = "log"
    /\ calls[h].status \notin {"DONE", "IN_PROGRESS"}
    /\ tasks[calls[h].row].status = calls[h].status
    /\ tasks[calls[h].row].completedAt # NoTime
    /\ tasks[calls[h].row].startedAt # NoTime
    /\ now > 0

\* C33: task status transitions are unrestricted -- whatever the status of
\* an existing task and whatever the target status, the update of
\* update_task_status goes through: the task has the target status and the
\* call goes on to log the change, without an error.
C33_TransitionsUnrestricted ==
  [][\A h \in Handlers :
       (/\ calls[h].op = "update_task_status" /\ calls[h].pc = "write"
        /\ calls[h].id \in DOMAIN tasks
        /\ calls'[h] # calls[h])
       => /\ tasks'[calls[h].id].status = calls[h].status
          /\ calls'[h].pc = "log"
          /\ ~calls'[h].isError]_vars

\* an update has taken a task out of DONE
C33_Witness ==
  \E h \in Handlers :
    /\ calls[h].op = "update_task_status" /\ calls[h].pc = "log"
    /\ calls[h].status = "TODO"
    /\ tasks[calls[h].row].status = "TODO"
    /\ tasks[calls[h].row].completedAt # NoTime

(***************************************************************************)
(* A claim about sockets that share an agent id (checked under SpecRebind).*)
(***************************************************************************)

\* C34: an open registered connection stays reachable -- whatever other
\* connections register and close (also under the same claimed agent id),
\* a connection that has registered and has not closed has a registry
\* entry that points to it, with its role.
C34_OpenStaysReachable ==
  \A w \in DOMAIN ws :
    ws[w] = "open"
    => \E i \in DOMAIN agentConnections :
         /\ agentConnections[i].v = w
         /\ MapHas(agentStatus, agentConnections[i].k)

(***************************************************************************)
(* Claims about the simple coordination server (checked under SpecSimple). *)
(***************************************************************************)

\* C35: once a registered connection has closed and every store call that
\* its handlers started has completed, the Agent row of its agent id is
\* OFFLINE, in whatever order the upsert and the update complete.  (Stated
\* for an id that no connection holds any more, with no store call of any
\* handler in flight and no upsert for the id rejected.)
C35_ClosedAgentOffline ==
  \A a \in SimpleAgentIds :
    (/\ \E w \in Sockets : simpleSockets[w].state = "closed" /\ simpleSockets[w].gone = a
     /\ ~MapHas(simpleConnections, a)
     /\ \A w \in Sockets :
          /\ simpleSockets[w].reg = "idle" /\ simpleSockets[w].upd = 0
          /\ simpleSockets[w].agentId = a => ~simpleSockets[w].failed)
    => simpleAgents[a] = "OFFLINE"

\* C36: a connection is in agentConnections only if its registration
\* succeeded -- a connection whose upsert was rejected has been sent no
\* "registered" reply and no entry of the map points to it.
C36_MappedOnlyIfRegistered ==
  \A w \in Sockets :
    (simpleSockets[w].failed /\ simpleSockets[w].reg = "idle")
    => /\ ~simpleSockets[w].replied
       /\ \A i \in DOMAIN simpleConnections : simpleConnections[i].v # w

(***************************************************************************)
(* A claim about the two registry maps (checked under SpecTracked).        *)
(***************************************************************************)

\* C37: after any sequence of register frames, heartbeats, closes and
\* register_agent calls, every agent id that has an entry in
\* agentConnections has an entry in agentStatus.
C37_ConnectionsHaveStatus ==
  \A i \in DOMAIN agentConnections : MapHas(agentStatus, agentConnections[i].k)

\* a connection is mapped while agentStatus also tracks an agent that
\* register_agent added
C37_Witness ==
  /\ agentConnections # << >>
  /\ Len(agentStatus) > Len(agentConnections)

(***************************************************************************)
(* Claims about the agent client (checked under SpecClient).               *)
(***************************************************************************)

\* C38: after shutdown() has been called, the client opens no further
\* WebSocket connection.
C38_NoConnectionAfterShutdown ==
  [][agent.down => agent'.opened = agent.opened]_vars

\* C39: a TaskforceAgent has at most one heartbeat timer at any time, over
\* any number of reconnects, and so sends at most one heartbeat per
\* heartbeat interval.
C39_OneHeartbeatTimer ==
  agent.heartbeats <= 1 /\ agent.beats <= 1

(***************************************************************************)
(* A claim about the MCP session table (checked under SpecSessions).       *)
(***************************************************************************)

\* the table holds exactly the sessions that were initialized and whose
\* transport has not closed, each with its own transport
TableExact ==
  /\ {transports[i].k : i \in DOMAIN transports}
       = {created[t].sessionId : t \in {u \in DOMAIN created :
            created[u].sessionId # 0 /\ ~created[u].closed}}
  /\ \A i \in DOMAIN transports :
       /\ created[transports[i].v].sessionId = transports[i].k
       /\ \A j \in DOMAIN transports : transports[j].k = transports[i].k => j = i

====
